---------------------------- MODULE Spec2Model ----------------------------
(***************************************************************************)
(* A model of the ORM layer: the Field descriptors of orm/field.py         *)
(* (validation, defaults, choices, decomposition into flat slots and       *)
(* composition back), the table registry and row hydration of MetaTable,   *)
(* and the persistence operations Table.save / Table.delete of             *)
(* orm/table.py, run against a Store (get / insert / update / drop).       *)
(*                                                                         *)
(* Python values are records tagged by their type in field t.              *)
(***************************************************************************)
EXTENDS Integers, Sequences, FiniteSets, TLC

VARIABLES
    schema,       \* table name -> sequence of [name, fld]: cls.field_names with cls.__dict__
    inst,         \* instance slot -> a live Table object, or Free
    rows,         \* the Store: table name -> (pk -> [vals, ver], or NoRow)
    nextPk,       \* the Store: table name -> the pk its next insert assigns
    table_names,  \* MetaTable.table_names
    declared      \* table name -> the field_names of its successful declaration

vars == <<schema, inst, rows, nextPk, table_names, declared>>

-----------------------------------------------------------------------------
(* Python values *)

None == [t |-> "None"]
PyInt(n) == [t |-> "int", v |-> n]
PyFloat(n) == [t |-> "float", v |-> n]
NaN == [t |-> "float", nan |-> TRUE]
PyStr(s) == [t |-> "str", s |-> s]
PyTuple(s) == [t |-> "tuple", items |-> s]
\* datetime.datetime(y, mo, d, h, mi, s, us, tzinfo): c holds the seven integers
PyDateTime(c, tz) == [t |-> "datetime", c |-> c, tz |-> tz]
\* a reference to the Table object held in an instance slot
PyObj(i) == [t |-> "obj", id |-> i]
\* a callable, by the value a call of it returns
PyCallable(r) == [t |-> "callable", ret |-> r]

IsNaN(x) == x.t = "float" /\ "nan" \in DOMAIN x
IsNum(x) == x.t \in {"int", "float"}

\* Python's ==: numbers compare by value across int and float and NaN equals
\* nothing; a naive and an aware datetime are never equal; tuples compare
\* element by element; objects compare by identity.
RECURSIVE PyEq(_, _)
PyEq(a, b) ==
    CASE IsNum(a) /\ IsNum(b) -> ~IsNaN(a) /\ ~IsNaN(b) /\ a.v = b.v
      [] a.t = "datetime" /\ b.t = "datetime" -> a.tz = b.tz /\ a.c = b.c
      [] a.t = "tuple" /\ b.t = "tuple" ->
            /\ Len(a.items) = Len(b.items)
            /\ \A k \in 1..Len(a.items) : PyEq(a.items[k], b.items[k])
      [] OTHER -> a = b

\* Python's "x in choices" over a list
PyIn(x, seq) == \E k \in 1..Len(seq) : PyEq(x, seq[k])

\* Exceptions are named by their Python class; Ok is no exception.
Ok == "ok"


-----------------------------------------------------------------------------
(* orm/field.py: construction of a Field *)

PyList(s) == [t |-> "list", items |-> s]

\* The base_type each subclass passes to Field.__init__
BaseType(kind) ==
    CASE kind = "Integer" -> "int"
      [] kind = "Float" -> "float"
      [] kind = "String" -> "str"
      [] kind = "DateTime" -> "datetime"

\* DateTime's base_type_init_args: datetime.datetime(1969, 12, 31, 19, 0, 0, 0)
DateTimeZero == PyDateTime(<<1969, 12, 31, 19, 0, 0, 0>>, FALSE)

\* base_type() / base_type(*base_type_init_args)
BaseZero(kind) ==
    CASE kind = "Integer" -> PyInt(0)
      [] kind = "Float" -> PyFloat(0)
      [] kind = "String" -> PyStr("")
      [] kind = "DateTime" -> DateTimeZero

\* Field.__init__ as Integer, Float, String and DateTime call it: the field, or
\* the TypeError it raises.
FieldInit(kind, blank, default, choices) ==
    LET Finish(base, blank_allowed, resolved) ==
            IF resolved.err # Ok THEN [err |-> "TypeError"]
            ELSE IF choices # None
                    /\ \E k \in 1..Len(choices.items) : choices.items[k].t # base
                 THEN [err |-> "TypeError"]
            ELSE IF blank_allowed /\ choices # None
                    /\ ~PyIn(resolved.val, choices.items)
                 THEN [err |-> "TypeError"]
            ELSE [err |-> Ok,
                  fld |-> [kind |-> kind, base_type |-> base,
                           blank_allowed |-> blank_allowed,
                           default |-> resolved.val, choices |-> choices]]
        Resolve(base) ==
            IF default = None THEN [err |-> Ok, val |-> BaseZero(kind)]
            ELSE IF default.t = base THEN [err |-> Ok, val |-> default]
            ELSE IF default.t = "callable"
                 THEN IF default.ret.t = base
                      THEN [err |-> Ok, val |-> default.ret]
                      ELSE [err |-> "TypeError"]
            ELSE [err |-> "TypeError"]
    IN  Finish(BaseType(kind), blank \/ default # None, Resolve(BaseType(kind)))

\* type(x) == tuple and len(x) == 2 and type(x[0]) == float and type(x[1]) == float
IsFloatPair(x) ==
    x.t = "tuple" /\ Len(x.items) = 2 /\ x.items[1].t = "float" /\ x.items[2].t = "float"

\* Coordinate.__init__
CoordinateInit(blank, default, choices) ==
    LET Finish(blank_allowed, resolved) ==
            IF resolved.err # Ok THEN [err |-> "TypeError"]
            ELSE IF choices # None
                    /\ \E k \in 1..Len(choices.items) : ~IsFloatPair(choices.items[k])
                 THEN [err |-> "TypeError"]
            ELSE IF blank_allowed /\ choices # None
                    /\ ~PyIn(resolved.val, choices.items)
                 THEN [err |-> "TypeError"]
            ELSE [err |-> Ok,
                  fld |-> [kind |-> "Coordinate", blank_allowed |-> blank_allowed,
                           default |-> resolved.val, choices |-> choices]]
    IN  Finish(blank \/ default # None,
               IF default = None
               THEN [err |-> Ok, val |-> PyTuple(<<PyInt(0), PyInt(0)>>)]
               ELSE IF IsFloatPair(default) THEN [err |-> Ok, val |-> default]
               ELSE IF default.t = "callable"
                    THEN IF IsFloatPair(default.ret)
                         THEN [err |-> Ok, val |-> default.ret]
                         ELSE [err |-> "TypeError"]
               ELSE [err |-> "TypeError"])

\* Foreign.__init__: it sets blank_allowed and referenced_table_type only
ForeignInit(table, blank) ==
    [kind |-> "Foreign", blank_allowed |-> blank, ref |-> table]

-----------------------------------------------------------------------------
(* orm/field.py: binding a value.  An instance o is a record               *)
(*   [cls, pk, version, lazy, attrs]                                       *)
(* where attrs maps each field name to the attributes the field keeps on   *)
(* the instance and lazy is the attribute is_reference_lazy_loaded:        *)
(* "absent", "True" or "False".                                            *)

\* Field.__set__: the value it stores, or the exception it raises
FieldSet(fld, value) ==
    LET Check(picked) ==
            IF picked.err # Ok THEN picked
            ELSE IF fld.choices # None /\ ~PyIn(picked.val, fld.choices.items)
                 THEN [err |-> "ValueError"]
            ELSE picked
    IN  Check(IF value = None
              THEN IF fld.blank_allowed THEN [err |-> Ok, val |-> fld.default]
                   ELSE [err |-> "AttributeError"]
              ELSE IF value.t = fld.base_type THEN [err |-> Ok, val |-> value]
              ELSE [err |-> "TypeError"])

\* Float.__set__: an int is converted to float first
FloatSet(fld, value) ==
    FieldSet(fld, IF value.t = "int" THEN PyFloat(value.v) ELSE value)

\* DateTime.__set__: the value and its seven cached components
DateTimeSet(fld, value) ==
    LET Cache(r) ==
            IF r.err # Ok THEN r
            ELSE [err |-> Ok,
                  attr |-> [val |-> r.val,
                            year |-> r.val.c[1], month |-> r.val.c[2],
                            day |-> r.val.c[3], hour |-> r.val.c[4],
                            minute |-> r.val.c[5], second |-> r.val.c[6],
                            microsecond |-> r.val.c[7]]]
    IN  Cache(FieldSet(fld, value))

CoordLimit == 90

\* Coordinate.is_valid_coordinate: a NaN compares false with everything
is_valid_coordinate(x) == ~IsNaN(x) /\ -CoordLimit <= x.v /\ x.v <= CoordLimit

\* Coordinate.__set__: the two cached components
CoordinateSet(fld, value) ==
    LET Check(picked) ==
            IF picked.err # Ok THEN picked
            ELSE IF ~is_valid_coordinate(picked.val.items[1])
                    \/ ~is_valid_coordinate(picked.val.items[2])
                 THEN [err |-> "ValueError"]
            ELSE IF fld.choices # None /\ ~PyIn(picked.val, fld.choices.items)
                 THEN [err |-> "ValueError"]
            ELSE [err |-> Ok,
                  attr |-> [latitude |-> picked.val.items[1],
                            longitude |-> picked.val.items[2]]]
    IN  Check(IF value = None
              THEN IF fld.blank_allowed THEN [err |-> Ok, val |-> fld.default]
                   ELSE [err |-> "AttributeError"]
              ELSE IF IsFloatPair(value) THEN [err |-> Ok, val |-> value]
              ELSE [err |-> "TypeError"])

\* Foreign.__set__ on instance o, I being the live objects: the stored
\* reference and the instance's is_reference_lazy_loaded afterwards
ForeignSet(I, fld, o, value) ==
    IF value = None
    THEN IF ~fld.blank_allowed THEN [err |-> "AttributeError"]
         ELSE [err |-> Ok, attr |-> [val |-> None], lazy |-> o.lazy]
    ELSE IF value.t = "obj" /\ I[value.id].cls = fld.ref
         THEN [err |-> Ok, attr |-> [val |-> value], lazy |-> "False"]
    ELSE IF value.t = "int" /\ o.lazy # "False"
         THEN [err |-> Ok, attr |-> [val |-> value], lazy |-> "True"]
    ELSE [err |-> "TypeError"]

\* setattr(o, name, value) through the field's descriptor: the instance
\* afterwards, or the exception and the instance untouched
SetAttr(I, o, name, fld, value) ==
    LET Scalar(s) == IF s.err # Ok THEN s ELSE [err |-> Ok, attr |-> [val |-> s.val]]
        Store(r) ==
            IF r.err # Ok THEN [err |-> r.err, obj |-> o]
            ELSE [err |-> Ok,
                  obj |-> [o EXCEPT
                             !.attrs = (name :> r.attr) @@ o.attrs,
                             !.lazy = IF fld.kind = "Foreign" THEN r.lazy ELSE @]]
    IN  Store(CASE fld.kind = "Foreign" -> ForeignSet(I, fld, o, value)
                [] fld.kind = "Coordinate" -> CoordinateSet(fld, value)
                [] fld.kind = "DateTime" -> DateTimeSet(fld, value)
                [] fld.kind = "Float" -> Scalar(FloatSet(fld, value))
                [] OTHER -> Scalar(FieldSet(fld, value)))

-----------------------------------------------------------------------------
(* orm/field.py: the flat layout of a field *)

\* get_schema_repr_py: the names of the slots a field occupies
get_schema_repr_py(name, fld) ==
    CASE fld.kind = "DateTime" ->
            <<name \o "_year", name \o "_month", name \o "_day", name \o "_hour",
              name \o "_minute", name \o "_second", name \o "_microsecond">>
      [] fld.kind = "Coordinate" -> <<name \o "_latitude", name \o "_longitude">>
      [] OTHER -> <<name>>

\* the number of slots of a field
Slots(fld) == Len(get_schema_repr_py("f", fld))

RECURSIVE SlotOf(_, _)
\* the position, in the flat list of cls, of the first slot of its k-th field:
\* the schema of a table is the schemas of its fields in declaration order
SlotOf(cls, k) ==
    IF k = 1 THEN 1 ELSE SlotOf(cls, k - 1) + Slots(schema[cls][k - 1].fld)

\* Field.__get__ and Coordinate.__get__: the value the field reads as; for a
\* Foreign field the reference the instance holds, which Foreign.__get__ and
\* get_decomposed_values both start from
FieldRead(o, name, fld) ==
    IF fld.kind = "Coordinate"
    THEN PyTuple(<<o.attrs[name].latitude, o.attrs[name].longitude>>)
    ELSE o.attrs[name].val

\* get_decomposed_values of field name on instance o, I being the live
\* objects: the primitive values, or the AttributeError of reading .pk of an
\* int that the instance's flag says is an object
get_decomposed_values(I, o, name, fld) ==
    LET a == o.attrs[name]
    IN  CASE fld.kind = "DateTime" ->
                [err |-> Ok,
                 vals |-> <<PyInt(a.year), PyInt(a.month), PyInt(a.day),
                            PyInt(a.hour), PyInt(a.minute), PyInt(a.second),
                            PyInt(a.microsecond)>>]
          [] fld.kind = "Coordinate" ->
                [err |-> Ok, vals |-> <<a.latitude, a.longitude>>]
          [] fld.kind = "Foreign" ->
                IF a.val = None THEN [err |-> Ok, vals |-> <<PyInt(0)>>]
                ELSE IF o.lazy = "True" THEN [err |-> Ok, vals |-> <<a.val>>]
                ELSE IF a.val.t = "obj"
                     THEN [err |-> Ok, vals |-> <<I[a.val.id].pk>>]
                ELSE [err |-> "AttributeError", vals |-> <<>>]
          [] OTHER -> [err |-> Ok, vals |-> <<a.val>>]

\* composition that leaves the microsecond out of a datetime
ComposeWithoutMicrosecond(fld, stream, pos) ==
    LET n == CASE fld.kind = "DateTime" -> 7
               [] fld.kind = "Coordinate" -> 2
               [] OTHER -> 1
    IN  IF pos + n - 1 > Len(stream)
        THEN [err |-> "StopIteration", pos |-> Len(stream) + 1]
        ELSE [err |-> Ok, pos |-> pos + n,
              val |-> CASE fld.kind = "DateTime" ->
                            PyDateTime([k \in 1..7 |->
                                          IF k = 7 THEN 0 ELSE stream[pos + k - 1].v],
                                       FALSE)
                        [] fld.kind = "Coordinate" ->
                            PyTuple(<<stream[pos], stream[pos + 1]>>)
                        [] OTHER -> stream[pos]]

\* get_field_assignable_obj_from_stream: the iterator is the sequence and a
\* position in it; next() past the end raises StopIteration.  The datetime
\* built is naive: the seven integers carry no tzinfo.
get_field_assignable_obj_from_stream(fld, stream, pos) ==
    LET n == CASE fld.kind = "DateTime" -> 7
               [] fld.kind = "Coordinate" -> 2
               [] OTHER -> 1
    IN  IF pos + n - 1 > Len(stream)
        THEN [err |-> "StopIteration", pos |-> Len(stream) + 1]
        ELSE [err |-> Ok, pos |-> pos + n,
              val |-> CASE fld.kind = "DateTime" ->
                            PyDateTime([k \in 1..7 |-> stream[pos + k - 1].v], FALSE)
                        [] fld.kind = "Coordinate" ->
                            PyTuple(<<stream[pos], stream[pos + 1]>>)
                        [] OTHER -> stream[pos]]

-----------------------------------------------------------------------------
(* The Store, by its contract: get, insert, update and drop over rows that  *)
(* carry a version.  A run is threaded through a record                     *)
(*   S = [I, R, N, C]                                                       *)
(* of the live objects, the rows, the next pk of each table and the calls   *)
(* issued so far.  The failAt-th call of an operation fails with a          *)
(* connection error (0: none does).                                         *)

NoRow == [t |-> "NoRow"]

Issue(S, call) == [S EXCEPT !.C = Append(@, call)]

\* the row pk names in table, or NoRow
RowAt(S, table, pk) ==
    IF pk.t = "int" /\ pk.v \in DOMAIN S.R[table] THEN S.R[table][pk.v] ELSE NoRow

\* get(table, pk) -> (ordered_values, version) | NotFound
StoreGet(S, table, pk, failAt) ==
    LET Answer(T, row) ==
            IF Len(T.C) = failAt THEN [S |-> T, err |-> "ConnectionError"]
            ELSE IF row = NoRow THEN [S |-> T, err |-> "NotFound"]
            ELSE [S |-> T, err |-> Ok, vals |-> row.vals, ver |-> PyInt(row.ver)]
    IN  Answer(Issue(S, [op |-> "get", table |-> table, pk |-> pk]),
               RowAt(S, table, pk))

\* insert(table, ordered_values) -> (pk, version)
StoreInsert(S, table, vals, failAt) ==
    LET Answer(T, pk) ==
            IF Len(T.C) = failAt THEN [S |-> T, err |-> "ConnectionError"]
            ELSE [S |-> [T EXCEPT
                           !.R[table] = (pk :> [vals |-> vals, ver |-> 1]) @@ @,
                           !.N[table] = pk + 1],
                  err |-> Ok, pk |-> PyInt(pk), ver |-> PyInt(1)]
    IN  Answer(Issue(S, [op |-> "insert", table |-> table, vals |-> vals]),
               S.N[table])

\* update(table, pk, ordered_values[, expected_version]) -> version | Conflict;
\* expected is None when the caller passes no expected_version
StoreUpdate(S, table, pk, vals, expected, failAt) ==
    LET Answer(T, row) ==
            IF Len(T.C) = failAt THEN [S |-> T, err |-> "ConnectionError"]
            ELSE IF row = NoRow THEN [S |-> T, err |-> "NotFound"]
            ELSE IF expected # None /\ expected # PyInt(row.ver)
                 THEN [S |-> T, err |-> "Conflict"]
            ELSE [S |-> [T EXCEPT
                           !.R[table][pk.v] = [vals |-> vals, ver |-> row.ver + 1]],
                  err |-> Ok, ver |-> PyInt(row.ver + 1)]
    IN  Answer(Issue(S, [op |-> "update", table |-> table, pk |-> pk,
                         vals |-> vals, expected |-> expected]),
               RowAt(S, table, pk))

\* drop(table, pk) -> success | failure
StoreDrop(S, table, pk, failAt) ==
    LET Answer(T, row) ==
            IF Len(T.C) = failAt THEN [S |-> T, err |-> "ConnectionError"]
            ELSE IF row = NoRow THEN [S |-> T, err |-> "NotFound"]
            ELSE [S |-> [T EXCEPT !.R[table][pk.v] = NoRow], err |-> Ok]
    IN  Answer(Issue(S, [op |-> "drop", table |-> table, pk |-> pk]),
               RowAt(S, table, pk))

-----------------------------------------------------------------------------
(* orm/table.py: Table.__init__, MetaTable.get, Table.save, Table.delete *)

RECURSIVE InitFields(_, _, _, _)
\* the loop of Table.__init__: setattr for each field name in order, a name
\* missing from kwargs being None; the first exception ends the construction
InitFields(I, o, k, kwargs) ==
    LET Go(r) == IF r.err # Ok THEN r ELSE InitFields(I, r.obj, k + 1, kwargs)
        Bind(f) == SetAttr(I, o, f.name, f.fld,
                           IF f.name \in DOMAIN kwargs THEN kwargs[f.name] ELSE None)
    IN  IF k > Len(schema[o.cls]) THEN [err |-> Ok, obj |-> o]
        ELSE Go(Bind(schema[o.cls][k]))

\* Table.__init__(db, **kwargs)
TableInit(I, cls, kwargs) ==
    InitFields(I, [cls |-> cls, pk |-> None, version |-> None,
                   lazy |-> "absent", attrs |-> <<>>], 1, kwargs)

RECURSIVE ComposeFields(_, _, _, _)
\* the loop of MetaTable.get: each field takes its values from the one
\* iterator over the fetched row
ComposeFields(cls, stream, k, pos) ==
    LET Prepend(name, val, rest) == [rest EXCEPT !.kwargs = (name :> val) @@ @]
        Go(f, r) ==
            IF r.err # Ok THEN [err |-> r.err, kwargs |-> <<>>, pos |-> r.pos]
            ELSE Prepend(f.name, r.val, ComposeFields(cls, stream, k + 1, r.pos))
        Take(f) == Go(f, get_field_assignable_obj_from_stream(f.fld, stream, pos))
    IN  IF k > Len(schema[cls]) THEN [err |-> Ok, kwargs |-> <<>>, pos |-> pos]
        ELSE Take(schema[cls][k])

\* MetaTable.get(db, pk): the hydrated object, or the exception
MetaTableGet(S, cls, pk, failAt) ==
    LET Build(g, n) ==
            IF n.err # Ok THEN [S |-> g.S, err |-> n.err]
            ELSE [S |-> g.S, err |-> Ok,
                  obj |-> [n.obj EXCEPT !.pk = pk, !.version = g.ver]]
        Compose(g, c) ==
            IF c.err # Ok THEN [S |-> g.S, err |-> c.err]
            ELSE Build(g, TableInit(g.S.I, cls, c.kwargs))
        Fetch(g) ==
            IF g.err # Ok THEN [S |-> g.S, err |-> g.err]
            ELSE Compose(g, ComposeFields(cls, g.vals, 1, 1))
    IN  Fetch(StoreGet(S, cls, pk, failAt))

\* Foreign.__get__: None, the held reference, or the object fetched for the
\* held pk (a fresh object, given by value)
ForeignGet(S, o, name, fld, failAt) ==
    LET Fetched(g) ==
            IF g.err # Ok THEN g
            ELSE [S |-> g.S, err |-> Ok, val |-> [t |-> "fetched", obj |-> g.obj]]
        Read(ref) ==
            IF ref = None THEN [S |-> S, err |-> Ok, val |-> None]
            ELSE IF o.lazy = "False" THEN [S |-> S, err |-> Ok, val |-> ref]
            ELSE Fetched(MetaTableGet(S, fld.ref, ref, failAt))
    IN  Read(o.attrs[name].val)

RECURSIVE SaveFields(_, _, _, _, _)
RECURSIVE TableSave(_, _, _, _)

\* Table.save without its cascade
SaveForeignSkipped(S, i, name, fld, failAt) == [S |-> S, err |-> Ok]

\* The cascade of Table.save for one Foreign field: read the field and, when
\* what it reads has pk None, save that object.  Reading .pk of None or of an
\* int raises AttributeError; so does the class getattr falls back to when
\* the read itself raised AttributeError.
SaveForeign(S, i, name, fld, failAt) ==
    LET Cascade(r) ==
            IF r.err # Ok THEN [S |-> r.S, err |-> r.err]
            ELSE IF r.val.t = "fetched"
                 THEN IF r.val.obj.pk = None
                      THEN [S |-> r.S, err |-> "AttributeError"]
                      ELSE [S |-> r.S, err |-> Ok]
            ELSE IF r.val.t = "obj"
                 THEN IF r.S.I[r.val.id].pk = None
                      THEN TableSave(r.S, r.val.id, TRUE, failAt)
                      ELSE [S |-> r.S, err |-> Ok]
            ELSE [S |-> r.S, err |-> "AttributeError"]
    IN  Cascade(ForeignGet(S, S.I[i], name, fld, failAt))

\* The loop of Table.save over field_names: the cascade, then the field's
\* decomposed values appended to the flat list
SaveFields(S, i, k, acc, failAt) ==
    LET Extend(c, d) ==
            IF d.err # Ok THEN [S |-> c.S, err |-> d.err, vals |-> acc]
            ELSE SaveFields(c.S, i, k + 1, acc \o d.vals, failAt)
        Decompose(f, c) ==
            IF c.err # Ok THEN [S |-> c.S, err |-> c.err, vals |-> acc]
            ELSE Extend(c, get_decomposed_values(c.S.I, c.S.I[i], f.name, f.fld))
        Field(f) ==
            Decompose(f, IF f.fld.kind = "Foreign"
                         THEN SaveForeign(S, i, f.name, f.fld, failAt)
                         ELSE [S |-> S, err |-> Ok])
    IN  IF k > Len(schema[S.I[i].cls]) THEN [S |-> S, err |-> Ok, vals |-> acc]
        ELSE Field(schema[S.I[i].cls][k])

\* The Store call of Table.save and what the instance adopts from it
SaveWrite(S, i, vals, atomic, failAt) ==
    LET Inserted(w) ==
            IF w.err # Ok THEN [S |-> w.S, err |-> w.err]
            ELSE [S |-> [w.S EXCEPT !.I[i].pk = w.pk, !.I[i].version = w.ver],
                  err |-> Ok]
        Updated(w) ==
            IF w.err # Ok THEN [S |-> w.S, err |-> w.err]
            ELSE [S |-> [w.S EXCEPT !.I[i].version = w.ver], err |-> Ok]
        Write(o) ==
            IF o.pk = None
            THEN Inserted(StoreInsert(S, o.cls, vals, failAt))
            ELSE Updated(StoreUpdate(S, o.cls, o.pk, vals,
                                     IF atomic THEN o.version ELSE None, failAt))
    IN  Write(S.I[i])

\* Table.save(atomic)
TableSave(S, i, atomic, failAt) ==
    LET Write(f) ==
            IF f.err # Ok THEN [S |-> f.S, err |-> f.err]
            ELSE SaveWrite(f.S, i, f.vals, atomic, failAt)
    IN  Write(SaveFields(S, i, 1, <<>>, failAt))

\* Table.delete() clearing pk and forgetting version
TableDeleteKeepsVersion(S, i, failAt) ==
    LET Dropped(d) ==
            IF d.err # Ok THEN [S |-> d.S, err |-> d.err]
            ELSE [S |-> [d.S EXCEPT !.I[i].pk = None], err |-> Ok]
    IN  Dropped(StoreDrop(S, S.I[i].cls, S.I[i].pk, failAt))

\* Table.delete() clearing the identity before the drop is known to succeed
TableDeleteEager(S, i, failAt) ==
    LET Dropped(d) ==
            [S |-> [d.S EXCEPT !.I[i].pk = None, !.I[i].version = None],
             err |-> d.err]
    IN  Dropped(StoreDrop(S, S.I[i].cls, S.I[i].pk, failAt))

\* Table.delete()
TableDelete(S, i, failAt) ==
    LET Dropped(d) ==
            IF d.err # Ok THEN [S |-> d.S, err |-> d.err]
            ELSE [S |-> [d.S EXCEPT !.I[i].pk = None, !.I[i].version = None],
                  err |-> Ok]
    IN  Dropped(StoreDrop(S, S.I[i].cls, S.I[i].pk, failAt))

-----------------------------------------------------------------------------
(* Bounds and the inputs the operations are tried with *)

MaxPk == 2          \* rows a table is ever given
MaxVersion == 2     \* versions a row goes through
MaxFail == 3        \* the latest Store call of one operation that may fail

\* A slot is free, kept for one object of class cls, or holds a live object
Free(cls) == [free |-> TRUE, cls |-> cls]
IsLive(o) == "attrs" \in DOMAIN o
Live(I) == {i \in DOMAIN I : IsLive(I[i])}

\* The values a field is assigned in the runs, None being a missing keyword
Candidates(I, fld) ==
    CASE fld.kind = "Integer" -> {None, PyInt(1), PyStr("x")}
      [] fld.kind = "Float" -> {None, PyInt(1), PyFloat(2), NaN, PyStr("x")}
      [] fld.kind = "String" -> {None, PyStr("a"), PyInt(1)}
      [] fld.kind = "DateTime" ->
            {None, PyDateTime(<<2020, 1, 2, 3, 4, 5, 6>>, FALSE),
             PyDateTime(<<2020, 1, 2, 3, 4, 5, 0>>, TRUE), PyInt(1)}
      [] fld.kind = "Coordinate" ->
            {None, PyTuple(<<PyFloat(45), PyFloat(-90)>>),
             PyTuple(<<PyFloat(91), PyFloat(0)>>),
             PyTuple(<<PyFloat(0), PyFloat(-91)>>),
             PyTuple(<<PyInt(1), PyInt(1)>>), PyFloat(1)}
      [] fld.kind = "Foreign" ->
            {None} \cup {PyInt(p) : p \in 1..MaxPk} \cup {PyObj(j) : j \in Live(I)}

\* the keyword arguments of one construction of cls
KwargSets(I, cls) ==
    LET names == {schema[cls][k].name : k \in 1..Len(schema[cls])}
        fldOf(n) == (CHOOSE k \in 1..Len(schema[cls]) : schema[cls][k].name = n)
    IN  {kw \in [names -> UNION {Candidates(I, schema[cls][k].fld) :
                                   k \in 1..Len(schema[cls])}] :
            \A n \in names : kw[n] \in Candidates(I, schema[cls][fldOf(n)].fld)}

\* the run of an operation starts from the current state with no call issued
Start == [I |-> inst, R |-> rows, N |-> nextPk, C |-> <<>>]

\* the counters stay within the bounds
WithinBounds(S) ==
    \A t \in DOMAIN S.N :
        /\ S.N[t] <= MaxPk + 1
        /\ \A p \in DOMAIN S.R[t] : S.R[t][p] # NoRow => S.R[t][p].ver <= MaxVersion

\* what an operation leaves behind, whether it returned or raised
Commit(S) ==
    /\ WithinBounds(S)
    /\ inst' = S.I /\ rows' = S.R /\ nextPk' = S.N
    /\ UNCHANGED <<schema, table_names, declared>>

FirstFree(cls) ==
    LET free == {i \in DOMAIN inst : inst[i] = Free(cls)}
    IN  IF free = {} THEN 0 ELSE CHOOSE i \in free : \A j \in free : i <= j

-----------------------------------------------------------------------------
(* The operations *)

\* obj = cls(db, **kwargs)
Construct(cls, kwargs) ==
    LET Bind(i, r) ==
            /\ i # 0
            /\ Commit(IF r.err = Ok THEN [Start EXCEPT !.I[i] = r.obj] ELSE Start)
    IN  Bind(FirstFree(cls), TableInit(inst, cls, kwargs))

\* obj = cls.get(db, pk)
Get(cls, pk, failAt) ==
    LET Bind(i, r) ==
            /\ i # 0
            /\ Commit(IF r.err = Ok THEN [r.S EXCEPT !.I[i] = r.obj] ELSE r.S)
    IN  Bind(FirstFree(cls), MetaTableGet(Start, cls, PyInt(pk), failAt))

\* obj.save(atomic)
Save(i, atomic, failAt) ==
    /\ IsLive(inst[i])
    /\ Commit(TableSave(Start, i, atomic, failAt).S)

\* obj.delete()
Delete(i, failAt) ==
    /\ IsLive(inst[i])
    /\ Commit(TableDelete(Start, i, failAt).S)

\* obj.<name> = value
SetField(i, k, value) ==
    LET Bind(f) ==
            Commit([Start EXCEPT
                      !.I[i] = SetAttr(inst, inst[i], f.name, f.fld, value).obj])
    IN  Bind(schema[inst[i].cls][k])

Next ==
    \/ \E cls \in DOMAIN schema : \E kw \in KwargSets(inst, cls) : Construct(cls, kw)
    \/ \E cls \in DOMAIN schema : \E pk \in 1..MaxPk : \E failAt \in 0..1 :
          Get(cls, pk, failAt)
    \/ \E i \in Live(inst) : \E atomic \in BOOLEAN : \E failAt \in 0..MaxFail :
          Save(i, atomic, failAt)
    \/ \E i \in Live(inst) : \E failAt \in 0..1 : Delete(i, failAt)
    \/ \E i \in Live(inst) : \E k \in 1..Len(schema[inst[i].cls]) :
          \E v \in Candidates(inst, schema[inst[i].cls][k].fld) : SetField(i, k, v)

\* The tables of the persistence runs: a row type with one scalar, one that
\* refers to it, and one with two references
ChainSchema ==
    [Leaf |-> <<[name |-> "n", fld |-> FieldInit("Integer", TRUE, None, None).fld]>>,
     Mid |-> <<[name |-> "leaf", fld |-> ForeignInit("Leaf", TRUE)]>>,
     Top |-> <<[name |-> "mid", fld |-> ForeignInit("Mid", FALSE)],
               [name |-> "leaf", fld |-> ForeignInit("Leaf", TRUE)]>>]

InitWith(sch, pool) ==
    /\ schema = sch
    /\ inst = [i \in 1..Len(pool) |-> Free(pool[i])]
    /\ rows = [t \in DOMAIN sch |-> [p \in 1..MaxPk |-> NoRow]]
    /\ nextPk = [t \in DOMAIN sch |-> 1]
    /\ table_names = {"Table"} \cup DOMAIN sch
    /\ declared = <<>>

Init == InitWith(ChainSchema, <<"Leaf", "Mid", "Mid">>)

Spec == Init /\ [][Next]_vars

InitChain == InitWith(ChainSchema, <<"Leaf", "Mid", "Top">>)

\* With one object of each class no free slot ever meets a stored row, so
\* these runs construct, save and delete.
NextChain ==
    \/ \E cls \in DOMAIN schema : \E kw \in KwargSets(inst, cls) : Construct(cls, kw)
    \/ \E i \in Live(inst) : \E atomic \in BOOLEAN : \E failAt \in 0..MaxFail :
          Save(i, atomic, failAt)
    \/ \E i \in Live(inst) : \E failAt \in 0..1 : Delete(i, failAt)

SpecChain == InitChain /\ [][NextChain]_vars

-----------------------------------------------------------------------------
(* The Store's scan, by its contract: scan(table, operator[, column,       *)
(* value]) -> ordered list of pk.  The order is the Store's: ascending or  *)
(* descending pk, as the caller of the run picks.                          *)

\* the slot names of a table: its fields' schemas in declaration order
RECURSIVE SlotNames(_, _)
SlotNames(cls, k) ==
    IF k > Len(schema[cls]) THEN <<>>
    ELSE get_schema_repr_py(schema[cls][k].name, schema[cls][k].fld)
             \o SlotNames(cls, k + 1)

\* how the Store compares a stored value a with a probe b
Compares(op, a, b) ==
    CASE op = "eq" -> PyEq(a, b)
      [] op = "ne" -> ~PyEq(a, b)
      [] op = "gt" -> IsNum(a) /\ IsNum(b) /\ ~IsNaN(a) /\ ~IsNaN(b) /\ a.v > b.v
      [] op = "lt" -> IsNum(a) /\ IsNum(b) /\ ~IsNaN(a) /\ ~IsNaN(b) /\ a.v < b.v
      [] OTHER -> TRUE

\* the value a row keeps in a column; "id" is its pk
ColumnOf(S, table, pk, col) ==
    IF col = "id" THEN PyInt(pk)
    ELSE S.R[table][pk].vals[CHOOSE n \in 1..Len(SlotNames(table, 1)) :
                                 SlotNames(table, 1)[n] = col]

\* the pks of P in the order the Store returns them
InOrder(P, desc) ==
    [k \in 1..Cardinality(P) |->
        CHOOSE p \in P :
            Cardinality({q \in P : IF desc THEN q >= p ELSE q <= p}) = k]

\* no column and no value: the match-all scan
NoArg == [t |-> "absent"]

StoreScan(S, table, op, col, val, failAt, desc) ==
    LET Matching ==
            {pk \in DOMAIN S.R[table] :
                /\ S.R[table][pk] # NoRow
                /\ op = "al" \/ Compares(op, ColumnOf(S, table, pk, col), val)}
        Answer(T) ==
            IF Len(T.C) = failAt THEN [S |-> T, err |-> "ConnectionError"]
            ELSE [S |-> T, err |-> Ok, pks |-> InOrder(Matching, desc)]
    IN  Answer(Issue(S, [op |-> "scan", table |-> table, how |-> op,
                         col |-> col, val |-> val]))

-----------------------------------------------------------------------------
(* orm/table.py: MetaTable.filter.  A criterion is the one keyword         *)
(* argument: its column, its operator ("absent" when the key has no __)    *)
(* and its value; NoArg is no keyword argument at all.                     *)

\* str(value) taken apart: the seven integers when the text has no fraction,
\* the value itself in a 1-tuple when it has one; the text of an aware
\* datetime carries an offset whose colon breaks the unpacking of the time
DateProbes(value) ==
    IF value.tz THEN [err |-> "ValueError"]
    ELSE IF value.c[7] # 0 THEN [err |-> Ok, values |-> <<value>>]
    ELSE [err |-> Ok, values |-> [k \in 1..7 |-> PyInt(value.c[k])]]

\* list(set(results[0]).intersection(*results)): the common pks, which a set
\* of small ints yields in ascending order
Intersection(results) ==
    InOrder({p \in 1..MaxPk : \A n \in 1..Len(results) :
                \E j \in 1..Len(results[n]) : results[n][j] = p}, FALSE)

RECURSIVE ScanEach(_, _, _, _, _, _, _, _)
\* the loop over zip(decomposed_col_names, values): one scan per pair
ScanEach(S, cls, op, cols, values, k, failAt, desc) ==
    LET Rest(r, t) ==
            IF t.err # Ok THEN t
            ELSE [S |-> t.S, err |-> Ok, results |-> <<r.pks>> \o t.results]
        Go(r) ==
            IF r.err # Ok THEN [S |-> r.S, err |-> r.err]
            ELSE Rest(r, ScanEach(r.S, cls, op, cols, values, k + 1, failAt, desc))
    IN  IF k > Len(cols) \/ k > Len(values)
        THEN [S |-> S, err |-> Ok, results |-> <<>>]
        ELSE Go(StoreScan(S, cls, op, cols[k], values[k], failAt, desc))

RECURSIVE GetEach(_, _, _, _, _)
\* the loop over result: objects.append(cls.get(db, id_))
GetEach(S, cls, pks, k, failAt) ==
    LET Rest(g, t) ==
            IF t.err # Ok THEN t
            ELSE [S |-> t.S, err |-> Ok, objects |-> <<g.obj>> \o t.objects]
        Go(g) ==
            IF g.err # Ok THEN [S |-> g.S, err |-> g.err]
            ELSE Rest(g, GetEach(g.S, cls, pks, k + 1, failAt))
    IN  IF k > Len(pks) THEN [S |-> S, err |-> Ok, objects |-> <<>>]
        ELSE Go(MetaTableGet(S, cls, PyInt(pks[k]), failAt))

\* the column names and the values a criterion is scanned with, or the
\* exception raised before any scan
FilterProbes(cls, crit) ==
    LET op == IF crit.op = "absent" THEN "eq" ELSE crit.op
        value == IF crit.value.t = "obj" THEN inst[crit.value.id].pk ELSE crit.value
        names == {schema[cls][k].name : k \in 1..Len(schema[cls])}
        fldOf(n) == schema[cls][CHOOSE k \in 1..Len(schema[cls]) :
                                   schema[cls][k].name = n]
        Dated(cols, d) ==
            IF d.err # Ok THEN [err |-> d.err]
            ELSE [err |-> Ok, op |-> op, cols |-> cols, values |-> d.values,
                  is_date |-> TRUE]
        Probes(cols) ==
            IF value.t = "datetime" THEN Dated(cols, DateProbes(value))
            ELSE [err |-> Ok, op |-> op, cols |-> cols,
                  values |-> IF value.t = "tuple" THEN value.items ELSE <<value>>,
                  is_date |-> FALSE]
    IN  IF op \notin {"ne", "gt", "lt", "al", "eq"}
        THEN [err |-> "AttributeError", why |-> "operator"]
        ELSE IF op # "al" /\ crit.col \notin names \cup {"id"}
             THEN [err |-> "AttributeError", why |-> "field"]
        ELSE IF crit.col = "id" THEN Probes(<<"id">>)
        ELSE IF crit.col \notin names THEN [err |-> "KeyError"]
        ELSE Probes(get_schema_repr_py(crit.col, fldOf(crit.col).fld))

\* the pks filter settles on from the scans: the one result, or the common
\* pks of several; for a datetime value the first result when it is not
\* empty, the loop over the results ending after its first turn
FilterResult(p, r) ==
    LET common == IF Len(r.results) > 1 THEN Intersection(r.results)
                  ELSE r.results[1]
    IN  IF p.is_date /\ r.results[1] # <<>> THEN r.results[1] ELSE common

\* MetaTable.filter(db, **kwarg): the hydrated objects, or the exception
MetaTableFilter(S, cls, crit, failAt, desc) ==
    LET Hydrate(T, pks) == GetEach(T, cls, pks, 1, failAt)
        All(r) ==
            IF r.err # Ok THEN [S |-> r.S, err |-> r.err]
            ELSE Hydrate(r.S, r.pks)
        Some(p, r) ==
            IF r.err # Ok THEN [S |-> r.S, err |-> r.err]
            ELSE Hydrate(r.S, FilterResult(p, r))
        Criterion(p) ==
            IF p.err # Ok THEN [S |-> S, err |-> p.err]
            ELSE IF p.op = "al" THEN All(StoreScan(S, cls, "al", NoArg, NoArg, failAt, desc))
            ELSE Some(p, ScanEach(S, cls, p.op, p.cols, p.values, 1, failAt, desc))
    IN  IF crit = NoArg THEN All(StoreScan(S, cls, "al", NoArg, NoArg, failAt, desc))
        ELSE Criterion(FilterProbes(cls, crit))

-----------------------------------------------------------------------------
(* Runs over one field: a table T whose only field is drawn from the fields *)
(* that Integer, Float, String, DateTime, Coordinate and Foreign construct. *)

\* a value of the field's type, the one the runs assign
Sample(kind) ==
    CASE kind = "Integer" -> PyInt(1)
      [] kind = "Float" -> PyFloat(1)
      [] kind = "String" -> PyStr("a")
      [] kind = "DateTime" -> PyDateTime(<<2020, 1, 2, 3, 4, 5, 6>>, FALSE)
      [] kind = "Coordinate" -> PyTuple(<<PyFloat(45), PyFloat(-90)>>)

\* the zero of the field's type, as a choice
Zero(kind) ==
    IF kind = "Coordinate" THEN PyTuple(<<PyFloat(0), PyFloat(0)>>) ELSE BaseZero(kind)

\* a value of another type
Foreigner(kind) == IF kind = "String" THEN PyInt(1) ELSE PyStr("x")

DefaultArgs(kind) ==
    {None, Sample(kind), PyCallable(Sample(kind)), Foreigner(kind),
     PyCallable(Foreigner(kind))}
    \cup (IF kind = "Coordinate" THEN {PyTuple(<<PyFloat(91), PyFloat(0)>>)} ELSE {})

ChoicesArgs(kind) ==
    {None, PyList(<<Zero(kind)>>), PyList(<<Sample(kind)>>),
     PyList(<<Zero(kind), Sample(kind)>>), PyList(<<Foreigner(kind)>>)}

\* every way the runs call a field's constructor
FieldAttempts ==
    UNION {{FieldInit(kind, blank, default, choices) :
              blank \in BOOLEAN,
              default \in DefaultArgs(kind), choices \in ChoicesArgs(kind)} :
           kind \in {"Integer", "Float", "String", "DateTime"}}
    \cup {CoordinateInit(blank, default, choices) :
        blank \in BOOLEAN, default \in DefaultArgs("Coordinate"),
        choices \in ChoicesArgs("Coordinate")}

\* the fields whose construction raised nothing
FieldConfigs ==
    {r.fld : r \in {a \in FieldAttempts : a.err = Ok}}
    \cup {ForeignInit("Leaf", blank) : blank \in BOOLEAN}

FieldSchema(fld) ==
    [T |-> <<[name |-> "f", fld |-> fld]>>,
     Leaf |-> <<[name |-> "n", fld |-> FieldInit("Integer", TRUE, None, None).fld]>>]

InitField == \E fld \in FieldConfigs : InitWith(FieldSchema(fld), <<"T", "T", "Leaf">>)

NextField ==
    \/ \E cls \in DOMAIN schema : \E kw \in KwargSets(inst, cls) : Construct(cls, kw)
    \/ \E i \in Live(inst) : \E k \in 1..Len(schema[inst[i].cls]) :
          \E v \in Candidates(inst, schema[inst[i].cls][k].fld) : SetField(i, k, v)

SpecField == InitField /\ [][NextField]_vars

-----------------------------------------------------------------------------
(* Runs over one row: a table Row with a 1-slot, a 2-slot and a 7-slot     *)
(* field, declared in each of the six orders.                              *)

RowFields ==
    <<[name |-> "x", fld |-> FieldInit("Float", TRUE, None, None).fld],
      [name |-> "c", fld |-> CoordinateInit(TRUE, None, None).fld],
      [name |-> "d", fld |-> FieldInit("DateTime", TRUE, None, None).fld]>>

\* the declaration orders
Orders == {p \in [1..3 -> 1..3] : \A a, b \in 1..3 : p[a] = p[b] => a = b}

InitRow ==
    \E p \in Orders :
        InitWith([Row |-> [k \in 1..3 |-> RowFields[p[k]]]], <<"Row", "Row">>)

\* the keyword arguments the rows are constructed with: none, a value for
\* each field, a NaN with an aware timestamp, and a latitude out of range
RowKwargs ==
    {<<>>,
     [x |-> PyInt(1), c |-> PyTuple(<<PyFloat(45), PyFloat(-90)>>),
      d |-> PyDateTime(<<2020, 1, 2, 3, 4, 5, 6>>, FALSE)],
     [x |-> NaN, c |-> PyTuple(<<PyFloat(-90), PyFloat(45)>>),
      d |-> PyDateTime(<<2020, 1, 2, 3, 4, 5, 0>>, TRUE)],
     [x |-> PyFloat(2), c |-> PyTuple(<<PyFloat(91), PyFloat(0)>>)]}

NextRow ==
    \/ \E kw \in RowKwargs : Construct("Row", kw)
    \/ \E cls \in DOMAIN schema : \E pk \in 1..MaxPk : \E failAt \in 0..1 :
          Get(cls, pk, failAt)
    \/ \E i \in Live(inst) : \E atomic \in BOOLEAN : \E failAt \in 0..1 :
          Save(i, atomic, failAt)

SpecRow == InitRow /\ [][NextRow]_vars

-----------------------------------------------------------------------------
(* Runs of filter over one table Row while its rows are written and        *)
(* deleted: a float, a coordinate and a timestamp.                         *)

InitFilter == InitWith([Row |-> RowFields], <<"Row", "Row">>)

Noon == PyDateTime(<<2020, 1, 2, 12, 0, 0, 0>>, FALSE)

\* the keyword arguments the rows are constructed with: none, and two rows
\* that share a latitude and differ in longitude and in the timestamp
FilterRows ==
    {<<>>,
     [x |-> PyInt(1), c |-> PyTuple(<<PyFloat(45), PyFloat(-90)>>), d |-> Noon],
     [x |-> PyFloat(2), c |-> PyTuple(<<PyFloat(45), PyFloat(10)>>),
      d |-> PyDateTime(<<2020, 1, 2, 3, 4, 5, 6>>, FALSE)]}

\* the values a column is filtered by
FilterValues(I, col) ==
    CASE col = "x" -> {PyFloat(1), PyFloat(2)}
      [] col = "c" -> {PyTuple(<<PyFloat(45), PyFloat(-90)>>),
                       PyTuple(<<PyFloat(45), PyFloat(10)>>)}
      [] col = "d" -> {Noon,
                       PyDateTime(<<2021, 1, 2, 12, 0, 0, 0>>, FALSE),
                       PyDateTime(<<2020, 1, 2, 3, 4, 5, 6>>, FALSE),
                       PyDateTime(<<2020, 1, 2, 12, 0, 0, 0>>, TRUE)}
      [] col = "id" -> {PyInt(1)} \cup {PyObj(j) : j \in Live(I)}
      [] OTHER -> {PyInt(1)}

Columns == {"x", "c", "d", "id", "zz"}
Operators == {"absent", "eq", "ne", "gt", "lt", "al", "in"}

\* the criteria of one call of filter: none, or column[__operator]=value
Criteria(I) ==
    {NoArg} \cup UNION {[col : {col}, op : Operators, value : FilterValues(I, col)] :
                          col \in Columns}

\* objs = cls.filter(db, **kwarg); the first object returned is kept
Filter(cls, crit, failAt, desc) ==
    LET Bind(i, r) ==
            Commit(IF r.err = Ok /\ i # 0 /\ r.objects # <<>>
                   THEN [r.S EXCEPT !.I[i] = r.objects[1]] ELSE r.S)
    IN  Bind(FirstFree(cls), MetaTableFilter(Start, cls, crit, failAt, desc))

NextFilter ==
    \/ \E kw \in FilterRows : Construct("Row", kw)
    \/ \E i \in Live(inst) : \E failAt \in 0..1 : Save(i, TRUE, failAt)
    \/ \E i \in Live(inst) : Delete(i, 0)
    \/ \E crit \in Criteria(inst) : \E failAt \in 0..MaxFail : \E desc \in BOOLEAN :
          Filter("Row", crit, failAt, desc)

SpecFilter == InitFilter /\ [][NextFilter]_vars

-----------------------------------------------------------------------------
(* orm/table.py: MetaTable.__init__, the declaration of a table type.  A   *)
(* column name is the sequence of its characters; attrs is the class body, *)
(* in order, each attribute a Field or not.                                *)

Letters == {"a", "d", "e", "i", "k", "l", "n", "o", "p", "r", "s", "t", "v"}
Digits == {"1"}

\* str.isalpha of one character and str.isalnum of a name
isalpha(ch) == ch \in Letters
isalnum(name) == Len(name) > 0 /\ \A k \in 1..Len(name) : name[k] \in Letters \cup Digits

\* ["pk", "version", "save", "delete"]
ReservedNames ==
    {<<"p", "k">>, <<"v", "e", "r", "s", "i", "o", "n">>, <<"s", "a", "v", "e">>,
     <<"d", "e", "l", "e", "t", "e">>}

\* the test MetaTable.__init__ puts a Field's attribute name to
ValidColumn(name) == isalpha(name[1]) /\ isalnum(name) /\ name \notin ReservedNames

\* a declaration that registers the name before it looks at the columns
MetaTableInitRegistersFirst(names, name, attrs) ==
    IF name \in names THEN [err |-> "AttributeError", table_names |-> names]
    ELSE IF \E k \in 1..Len(attrs) : attrs[k].isField /\ ~ValidColumn(attrs[k].name)
         THEN [err |-> "AttributeError", table_names |-> names \cup {name}]
    ELSE [err |-> Ok, table_names |-> names \cup {name},
          field_names |-> [k \in 1..Len(SelectSeq(attrs, LAMBDA a : a.isField)) |->
                              SelectSeq(attrs, LAMBDA a : a.isField)[k].name]]

\* MetaTable.__init__(cls, name, bases, attrs) on the registry names
MetaTableInit(names, name, attrs) ==
    IF name \in names THEN [err |-> "AttributeError", table_names |-> names]
    ELSE IF \E k \in 1..Len(attrs) : attrs[k].isField /\ ~ValidColumn(attrs[k].name)
         THEN [err |-> "AttributeError", table_names |-> names]
    ELSE [err |-> Ok, table_names |-> names \cup {name},
          field_names |-> [k \in 1..Len(SelectSeq(attrs, LAMBDA a : a.isField)) |->
                              SelectSeq(attrs, LAMBDA a : a.isField)[k].name]]

MaxAttrs == 2       \* attributes in a declared class body

\* the names the runs declare tables under, and give to attributes
TableNames == {"Table", "Leaf", "A", "B", "C"}
AttrNames ==
    ReservedNames \cup {<<"a">>, <<"a", "1">>, <<"1", "a">>, <<"a", "_", "k">>, <<"_", "a">>}

\* the class bodies: attributes of distinct names
ClassBodies ==
    LET attr == [name : AttrNames, isField : BOOLEAN]
    IN  UNION {{b \in [1..n -> attr] :
                  \A j, k \in 1..n : b[j].name = b[k].name => j = k} : n \in 0..MaxAttrs}

\* class <name>(Table): <attrs>
Declare(name, attrs) ==
    LET Done(r) ==
            /\ table_names' = r.table_names
            /\ declared' = IF r.err = Ok THEN (name :> r.field_names) @@ declared
                           ELSE declared
    IN  /\ Done(MetaTableInit(table_names, name, attrs))
        /\ UNCHANGED <<schema, inst, rows, nextPk>>

NextRegistry == \E name \in TableNames : \E attrs \in ClassBodies : Declare(name, attrs)

SpecRegistry == Init /\ [][NextRegistry]_vars

-----------------------------------------------------------------------------
(* Reading the outcome of an operation *)

\* the failures a Store call reports
StoreErrors == {"ConnectionError", "NotFound", "Conflict"}

\* the inserts and updates among the calls, on one table
Writes(C, table) ==
    SelectSeq(C, LAMBDA c : c.op \in {"insert", "update"} /\ c.table = table)

\* the calls of one kind
CallsOf(C, op) == SelectSeq(C, LAMBDA c : c.op = op)

\* a run that starts after S with no call issued yet
After(S) == [S EXCEPT !.C = <<>>]

\* a row of table that was inserted and then dropped
DroppedRow(table) == \E p \in 1..MaxPk : p < nextPk[table] /\ rows[table][p] = NoRow

-----------------------------------------------------------------------------
(* C1: every live instance has pk and version both None or both set, after *)
(* any construction, hydration, save and delete, failed Store calls        *)
(* included.                                                               *)
C1_PkVersionPaired ==
    \A i \in Live(inst) : (inst[i].pk = None) <=> (inst[i].version = None)

\* an instance saved and not deleted beside one that a delete made Transient
C1_Witness ==
    \E i, j \in Live(inst) :
        /\ inst[i].pk # None /\ inst[i].version # None
        /\ inst[j].pk = None /\ inst[j].version = None
        /\ DroppedRow(inst[j].cls)

-----------------------------------------------------------------------------
(* C2: with a Store whose calls succeed, save() of a Transient instance    *)
(* issues exactly one insert and no update and adopts the returned pk and  *)
(* version; save() of a Persisted instance issues exactly one update for   *)
(* the held pk and no insert, with the held version as expected_version    *)
(* exactly when atomic, and adopts the returned version; the first save()  *)
(* after a successful delete() is an insert again.                         *)
C2_SaveOutcome(o, atomic, N, r, i) ==
    LET own == Writes(r.S.C, o.cls)
    IN  r.err \notin StoreErrors =>
          /\ Len(own) = 1
          /\ IF o.pk = None
             THEN /\ own[1].op = "insert"
                  /\ r.S.I[i].pk = PyInt(N[o.cls])
                  /\ r.S.I[i].version = PyInt(r.S.R[o.cls][N[o.cls]].ver)
             ELSE /\ own[1].op = "update"
                  /\ own[1].pk = o.pk
                  /\ own[1].expected = (IF atomic THEN o.version ELSE None)
                  /\ r.S.I[i].pk = o.pk
                  /\ r.S.I[i].version = PyInt(r.S.R[o.cls][o.pk.v].ver)

C2_AfterDelete(d, i, atomic) ==
    d.err = Ok =>
        /\ d.S.I[i].pk = None
        /\ C2_SaveOutcome(d.S.I[i], atomic, d.S.N,
                          TableSave(After(d.S), i, atomic, 0), i)

C2_SaveInsertsThenUpdates ==
    \A i \in Live(inst) : \A atomic \in BOOLEAN :
        /\ C2_SaveOutcome(inst[i], atomic, nextPk, TableSave(Start, i, atomic, 0), i)
        /\ C2_AfterDelete(TableDelete(Start, i, 0), i, atomic)

\* the same for the saves that raise nothing of their own: what the code does
C2_SaveInsertsThenUpdatesWhenSaved ==
    \A i \in Live(inst) : \A atomic \in BOOLEAN :
        /\ TableSave(Start, i, atomic, 0).err \in StoreErrors \cup {Ok} =>
              C2_SaveOutcome(inst[i], atomic, nextPk,
                             TableSave(Start, i, atomic, 0), i)
        /\ TableDelete(Start, i, 0).err = Ok
           /\ TableSave(After(TableDelete(Start, i, 0).S), i, atomic, 0).err
                 \in StoreErrors \cup {Ok} =>
              C2_AfterDelete(TableDelete(Start, i, 0), i, atomic)

-----------------------------------------------------------------------------
(* C3: when two instances hydrated from one row at version v both call     *)
(* save(atomic=True), the first save succeeds and adopts the new version;  *)
(* the second presents the stale v in one update, gets the Store's         *)
(* Conflict with no retry, the row keeps the first writer's values and the *)
(* second instance keeps its pk, version and field values.  The Store of   *)
(* the claim refuses a stale version and nothing else.                     *)

\* i and j hold the same row at its current version
SameRow(i, j) ==
    /\ i # j
    /\ inst[i].cls = inst[j].cls
    /\ inst[i].pk # None /\ inst[i].pk = inst[j].pk
    /\ inst[i].version = inst[j].version
    /\ RowAt(Start, inst[i].cls, inst[i].pk) # NoRow
    /\ inst[i].version = PyInt(RowAt(Start, inst[i].cls, inst[i].pk).ver)

\* the Store refused nothing but, possibly, a stale version
C3_StoreServes(r) == r.err \notin {"NotFound", "ConnectionError"}

C3_Second(i, j, r1, r2) ==
    LET own == Writes(r2.S.C, inst[j].cls)
    IN  C3_StoreServes(r2) =>
        /\ r2.err = "Conflict"
        /\ Len(own) = 1
        /\ own[1].op = "update"
        /\ own[1].expected = inst[j].version
        /\ r2.S.R[inst[j].cls] = r1.S.R[inst[j].cls]
        /\ r2.S.I[j] = inst[j]

C3_First(i, j, r1) ==
    C3_StoreServes(r1) =>
    /\ r1.err = Ok
    /\ r1.S.I[i].pk = inst[i].pk
    /\ r1.S.I[i].version = PyInt(inst[i].version.v + 1)
    /\ r1.S.I[i].version = PyInt(r1.S.R[inst[i].cls][inst[i].pk.v].ver)
    /\ C3_Second(i, j, r1, TableSave(After(r1.S), j, TRUE, 0))

C3_StaleSaveConflicts ==
    \A i, j \in Live(inst) :
        SameRow(i, j) => C3_First(i, j, TableSave(Start, i, TRUE, 0))

\* the same for the pairs whose saves raise nothing of their own and whose
\* reads of referenced rows succeed: what the code does
C3_Saved(r) == r.err \in {Ok, "Conflict"}

C3_StaleSaveConflictsWhenSaved ==
    \A i, j \in Live(inst) :
        /\ SameRow(i, j)
        /\ C3_Saved(TableSave(Start, i, TRUE, 0))
        /\ C3_Saved(TableSave(After(TableSave(Start, i, TRUE, 0).S), j, TRUE, 0))
        => C3_First(i, j, TableSave(Start, i, TRUE, 0))

-----------------------------------------------------------------------------
(* C4: an eagerly held referenced object whose pk is None is inserted      *)
(* before the referring instance's own insert or update reaches the Store, *)
(* and the referring row's slot for that field is the pk the Store         *)
(* assigned to the nested object; the same holds down a chain of unsaved   *)
(* references, a nested object's own references being inserted before it.  *)

\* the object whose write of its own row the call is: each class of these
\* runs has one object
Writer(c) == CHOOSE x \in Live(inst) : inst[x].cls = c.table

\* field k of x holds, before the save, an object that was never inserted
HoldsUnsaved(x, k) ==
    LET f == schema[inst[x].cls][k]
        a == inst[x].attrs[f.name]
    IN  /\ f.fld.kind = "Foreign"
        /\ a.val.t = "obj"
        /\ inst[a.val.id].pk = None

Held(x, k) == inst[x].attrs[schema[inst[x].cls][k].name].val.id

C4_WriteFollowsNested(r, w) ==
    LET c == r.S.C[w]
        x == Writer(c)
    IN  \A k \in 1..Len(schema[c.table]) :
            HoldsUnsaved(x, k) =>
                /\ \E u \in 1..(w - 1) :
                      /\ r.S.C[u].op = "insert"
                      /\ r.S.C[u].table = inst[Held(x, k)].cls
                /\ r.S.I[Held(x, k)].pk = PyInt(nextPk[inst[Held(x, k)].cls])
                /\ c.vals[SlotOf(c.table, k)] = r.S.I[Held(x, k)].pk

C4_Cascade(r) ==
    \A w \in 1..Len(r.S.C) :
        r.S.C[w].op \in {"insert", "update"} => C4_WriteFollowsNested(r, w)

C4_NestedInsertedFirst ==
    \A i \in Live(inst) : \A atomic \in BOOLEAN : \A failAt \in 0..MaxFail :
        C4_Cascade(TableSave(Start, i, atomic, failAt))

\* a chain of two unsaved references is saved: three inserts, innermost first
C4_ChainSaved(r) ==
    /\ r.err = Ok
    /\ Len(r.S.C) = 3
    /\ r.S.C[1].table = "Leaf" /\ r.S.C[2].table = "Mid" /\ r.S.C[3].table = "Top"
    /\ \A w \in 1..3 : r.S.C[w].op = "insert"

C4_Witness ==
    \E i \in Live(inst) :
        /\ inst[i].cls = "Top"
        /\ HoldsUnsaved(i, 1)
        /\ HoldsUnsaved(Held(i, 1), 1)
        /\ C4_ChainSaved(TableSave(Start, i, FALSE, 0))

\* an update of a Persisted parent preceded by the insert of its new reference
C4_UpdateWitness ==
    \E i \in Live(inst) :
        /\ inst[i].cls = "Mid" /\ inst[i].pk # None
        /\ HoldsUnsaved(i, 1)
        /\ TableSave(Start, i, TRUE, 0).err = Ok

-----------------------------------------------------------------------------
(* C5: save() cascades only into Foreign fields that hold an object whose  *)
(* pk is None; for a field that is Unset, or held lazily by key, save()    *)
(* issues no nested save and no Store get, completes its own insert or     *)
(* update, and writes 0 for Unset or the held pk unchanged for by-key.     *)

Unset(x, k) ==
    /\ schema[inst[x].cls][k].fld.kind = "Foreign"
    /\ inst[x].attrs[schema[inst[x].cls][k].name].val = None

ByKey(x, k) ==
    /\ schema[inst[x].cls][k].fld.kind = "Foreign"
    /\ inst[x].lazy = "True"
    /\ inst[x].attrs[schema[inst[x].cls][k].name].val.t = "int"

\* every Foreign field of x is Unset or held by key
NothingToCascade(x) ==
    \A k \in 1..Len(schema[inst[x].cls]) :
        schema[inst[x].cls][k].fld.kind = "Foreign" => Unset(x, k) \/ ByKey(x, k)

C5_OwnWriteOnly(x, r) ==
    /\ Len(CallsOf(r.S.C, "get")) = 0
    /\ Len(r.S.C) = 1
    /\ r.S.C[1].op \in {"insert", "update"}
    /\ r.S.C[1].table = inst[x].cls
    /\ \A k \in 1..Len(schema[inst[x].cls]) :
          /\ Unset(x, k) => r.S.C[1].vals[SlotOf(inst[x].cls, k)] = PyInt(0)
          /\ ByKey(x, k) /\ ~Unset(x, k) =>
                r.S.C[1].vals[SlotOf(inst[x].cls, k)] =
                    inst[x].attrs[schema[inst[x].cls][k].name].val

C5_NoCascadeForUnsetOrByKey ==
    \A x \in Live(inst) : \A atomic \in BOOLEAN :
        NothingToCascade(x) => C5_OwnWriteOnly(x, TableSave(Start, x, atomic, 0))

-----------------------------------------------------------------------------
(* C6: delete() issues exactly one drop, for the held pk; when the drop    *)
(* succeeds pk and version become None and the field values stay; when it  *)
(* fails the failure is the caller's and pk, version and field values are  *)
(* unchanged.                                                              *)
C6_Outcome(i, failAt, r) ==
    /\ r.S.C = <<[op |-> "drop", table |-> inst[i].cls, pk |-> inst[i].pk]>>
    /\ r.err = StoreDrop(Start, inst[i].cls, inst[i].pk, failAt).err
    /\ r.err = Ok =>
          /\ r.S.I = [inst EXCEPT ![i].pk = None, ![i].version = None]
          /\ r.S.I[i].attrs = inst[i].attrs
    /\ r.err # Ok => r.S.I = inst

C6_DeleteClearsIdentity ==
    \A i \in Live(inst) : \A failAt \in 0..1 :
        C6_Outcome(i, failAt, TableDelete(Start, i, failAt))

\* a Persisted instance whose drop can succeed and can fail
C6_Witness ==
    \E i \in Live(inst) :
        /\ inst[i].pk # None
        /\ TableDelete(Start, i, 0).err = Ok
        /\ TableDelete(Start, i, 0).S.I[i].pk = None
        /\ TableDelete(Start, i, 1).err = "ConnectionError"

-----------------------------------------------------------------------------
(* C7: decomposing a bound field value into its slot values and composing  *)
(* those back yields a value equal to the original, for Integer, Float,    *)
(* String, DateTime, Coordinate and Foreign, a Foreign field unset, held   *)
(* by primary key or held by object included.                              *)

\* compose(decompose(.)) of field k of instance i
Recomposed(i, k) ==
    LET f == schema[inst[i].cls][k]
        Compose(d) ==
            IF d.err # Ok THEN [err |-> d.err]
            ELSE get_field_assignable_obj_from_stream(f.fld, d.vals, 1)
    IN  Compose(get_decomposed_values(inst, inst[i], f.name, f.fld))

Original(i, k) == FieldRead(inst[i], schema[inst[i].cls][k].name, schema[inst[i].cls][k].fld)

Fields(i) == 1..Len(schema[inst[i].cls])

IsAware(x) == x.t = "datetime" /\ x.tz

\* what the slots carry of a value y: an unset reference is 0, a held object
\* is its pk, an aware timestamp is the naive one of the same seven numbers,
\* and a NaN is the NaN, equal to nothing
C7_Carried(x, y) ==
    CASE x = None -> y = PyInt(0)
      [] x.t = "obj" -> y = inst[x.id].pk
      [] IsAware(x) -> y = PyDateTime(x.c, FALSE) /\ ~PyEq(y, x)
      [] IsNaN(x) -> IsNaN(y) /\ ~PyEq(y, x)
      [] OTHER -> PyEq(y, x)

C7_ForeignWitness ==
    \E i, j \in Live(inst) :
        /\ schema[inst[i].cls][1].fld.kind = "Foreign"
        /\ Original(i, 1).t = "obj" /\ Recomposed(i, 1).val = None
        /\ Original(j, 1) = None /\ Recomposed(j, 1).val = PyInt(0)

-----------------------------------------------------------------------------
(* C8: for a table with 1-slot, 2-slot and 7-slot fields in any            *)
(* declaration order, the flat list save() sends has one value per schema  *)
(* slot in declaration order; get() composes each field from exactly the   *)
(* contiguous run of slots its declaration position owns; and get() of a   *)
(* row written by save() reproduces every non-Foreign field value.         *)

TotalSlots(cls) ==
    SlotOf(cls, Len(schema[cls])) + Slots(schema[cls][Len(schema[cls])].fld) - 1

\* the slots of vals that field k of cls owns
Run(cls, k, vals) ==
    SubSeq(vals, SlotOf(cls, k), SlotOf(cls, k) + Slots(schema[cls][k].fld) - 1)

\* the one call of r carries the decomposed values of each field in its run
C8_SentInOrder(i, r) ==
    /\ Len(r.S.C) = 1
    /\ r.S.C[1].op \in {"insert", "update"}
    /\ Len(r.S.C[1].vals) = TotalSlots(inst[i].cls)
    /\ \A k \in Fields(i) :
          Run(inst[i].cls, k, r.S.C[1].vals) =
              get_decomposed_values(inst, inst[i], schema[inst[i].cls][k].name,
                                    schema[inst[i].cls][k].fld).vals

\* field k of the hydrated object is what binding the value composed from
\* its own run, and nothing else, gives
C8_FromOwnRun(cls, vals, g, k) ==
    LET f == schema[cls][k]
        Bound(c) == SetAttr(inst, g.obj, f.name, f.fld, c.val)
    IN  g.obj.attrs[f.name] =
            Bound(get_field_assignable_obj_from_stream(
                      f.fld, Run(cls, k, vals), 1)).obj.attrs[f.name]

\* the object fetched after the save r reads as i did, Same saying how
C8_ReadsAs(i, g, Same(_, _)) ==
    \A k \in Fields(i) :
        schema[inst[i].cls][k].fld.kind # "Foreign" =>
            Same(Original(i, k),
                 FieldRead(g.obj, schema[inst[i].cls][k].name,
                           schema[inst[i].cls][k].fld))

\* The claim as stated.
C8_RowRoundTrip ==
    /\ \A i \in Live(inst) : \A atomic \in BOOLEAN :
          C8_SentInOrder(i, TableSave(Start, i, atomic, 0))
    /\ \A cls \in DOMAIN schema : \A pk \in 1..MaxPk :
          rows[cls][pk] # NoRow =>
              /\ MetaTableGet(Start, cls, PyInt(pk), 0).err = Ok
              /\ \A k \in 1..Len(schema[cls]) :
                    C8_FromOwnRun(cls, rows[cls][pk].vals,
                                  MetaTableGet(Start, cls, PyInt(pk), 0), k)
    /\ \A i \in Live(inst) : \A atomic \in BOOLEAN :
          TableSave(Start, i, atomic, 0).err = Ok =>
              /\ MetaTableGet(After(TableSave(Start, i, atomic, 0).S), inst[i].cls,
                              TableSave(Start, i, atomic, 0).S.I[i].pk, 0).err = Ok
              /\ C8_ReadsAs(i, MetaTableGet(After(TableSave(Start, i, atomic, 0).S),
                                            inst[i].cls,
                                            TableSave(Start, i, atomic, 0).S.I[i].pk, 0),
                            LAMBDA x, y : PyEq(y, x))

\* a row whose coordinate was left at the default (0, 0) of two ints
HoldsIntCoordinate(vals, cls) ==
    \E k \in 1..Len(schema[cls]) :
        /\ schema[cls][k].fld.kind = "Coordinate"
        /\ ~IsFloatPair(PyTuple(Run(cls, k, vals)))

\* what the code does: the layout is as stated; get() of a row raises
\* TypeError exactly when the row holds the int pair of a default coordinate,
\* and otherwise composes each field from its own run and reads as the saved
\* instance did, up to what the slots carry of a timestamp and of a NaN
C8_RowRoundTripWhenHydrated ==
    /\ \A i \in Live(inst) : \A atomic \in BOOLEAN :
          C8_SentInOrder(i, TableSave(Start, i, atomic, 0))
    /\ \A cls \in DOMAIN schema : \A pk \in 1..MaxPk :
          rows[cls][pk] # NoRow =>
              IF HoldsIntCoordinate(rows[cls][pk].vals, cls)
              THEN MetaTableGet(Start, cls, PyInt(pk), 0).err = "TypeError"
              ELSE /\ MetaTableGet(Start, cls, PyInt(pk), 0).err = Ok
                   /\ \A k \in 1..Len(schema[cls]) :
                         C8_FromOwnRun(cls, rows[cls][pk].vals,
                                       MetaTableGet(Start, cls, PyInt(pk), 0), k)
    /\ \A i \in Live(inst) : \A atomic \in BOOLEAN :
          /\ TableSave(Start, i, atomic, 0).err = Ok
          /\ MetaTableGet(After(TableSave(Start, i, atomic, 0).S), inst[i].cls,
                          TableSave(Start, i, atomic, 0).S.I[i].pk, 0).err = Ok
          => C8_ReadsAs(i, MetaTableGet(After(TableSave(Start, i, atomic, 0).S),
                                        inst[i].cls,
                                        TableSave(Start, i, atomic, 0).S.I[i].pk, 0),
                        C7_Carried)

-----------------------------------------------------------------------------
(* C9: for a field with a default (Integer, Float, String, DateTime,       *)
(* Coordinate), assigning None raises the missing-value error when         *)
(* blank_allowed is false and, when it is true, always succeeds and binds  *)
(* the default, which the next read returns; a value of the wrong type     *)
(* raises a type error; a value outside a non-empty choices list raises    *)
(* the invalid-choice error; a failed assignment leaves the bound value    *)
(* unchanged.                                                              *)

\* what the field takes for a value of its type: Float takes an int too
OfFieldType(fld, v) ==
    CASE fld.kind = "Coordinate" -> IsFloatPair(v)
      [] fld.kind = "Float" -> v.t \in {"float", "int"}
      [] OTHER -> v.t = fld.base_type

C9_Outcome(i, f, v, r) ==
    /\ v = None /\ ~f.fld.blank_allowed => r.err = "AttributeError"
    /\ v = None /\ f.fld.blank_allowed =>
          /\ r.err = Ok
          /\ PyEq(FieldRead(r.obj, f.name, f.fld), f.fld.default)
    /\ v # None /\ ~OfFieldType(f.fld, v) => r.err = "TypeError"
    /\ v # None /\ OfFieldType(f.fld, v) /\ f.fld.choices # None
          /\ Len(f.fld.choices.items) > 0 /\ ~PyIn(v, f.fld.choices.items)
          => r.err = "ValueError"
    /\ r.err # Ok => r.obj = inst[i]

C9_AssignmentOutcomes ==
    \A i \in Live(inst) : \A k \in Fields(i) :
        schema[inst[i].cls][k].fld.kind # "Foreign" =>
            \A v \in Candidates(inst, schema[inst[i].cls][k].fld) :
                C9_Outcome(i, schema[inst[i].cls][k], v,
                           SetAttr(inst, inst[i], schema[inst[i].cls][k].name,
                                   schema[inst[i].cls][k].fld, v))

\* the default of the field is a value the field would accept if assigned
DefaultAssignable(fld) ==
    fld.kind = "Coordinate" =>
        /\ is_valid_coordinate(fld.default.items[1])
        /\ is_valid_coordinate(fld.default.items[2])

\* the same for the fields whose default is in range: what the code does
C9_AssignmentOutcomesInRange ==
    \A i \in Live(inst) : \A k \in Fields(i) :
        schema[inst[i].cls][k].fld.kind # "Foreign"
        /\ DefaultAssignable(schema[inst[i].cls][k].fld) =>
            \A v \in Candidates(inst, schema[inst[i].cls][k].fld) :
                C9_Outcome(i, schema[inst[i].cls][k], v,
                           SetAttr(inst, inst[i], schema[inst[i].cls][k].name,
                                   schema[inst[i].cls][k].fld, v))

-----------------------------------------------------------------------------
(* C10: declaring a table type whose name is in the registry fails and     *)
(* leaves the registry unchanged; declaring one with a field named pk,     *)
(* version, save or delete, or with a field name that is not a letter      *)
(* followed by letters and digits, fails and does not add the name; a      *)
(* successful declaration adds its name once; and no name is ever removed. *)

\* a letter followed by letters and digits
LetterThenAlnum(name) ==
    /\ name[1] \in Letters
    /\ \A k \in 2..Len(name) : name[k] \in Letters \cup Digits

Rejected(attrs) ==
    \E k \in 1..Len(attrs) :
        attrs[k].isField
        /\ (attrs[k].name \in ReservedNames \/ ~LetterThenAlnum(attrs[k].name))

C10_Outcome(name, attrs, r) ==
    /\ name \in table_names => r.err # Ok /\ r.table_names = table_names
    /\ Rejected(attrs) => r.err # Ok /\ r.table_names = table_names
    /\ r.err = Ok =>
          /\ name \notin table_names
          /\ r.table_names = table_names \cup {name}
          /\ Cardinality(r.table_names) = Cardinality(table_names) + 1
    /\ table_names \subseteq r.table_names

C10_RegistryOnlyGrows ==
    /\ {"Table"} \cup DOMAIN schema \cup DOMAIN declared \subseteq table_names
    /\ \A name \in TableNames : \A attrs \in ClassBodies :
          C10_Outcome(name, attrs, MetaTableInit(table_names, name, attrs))

\* a table declared with two columns, whose name is now taken
C10_Witness ==
    /\ "A" \in DOMAIN declared
    /\ declared["A"] = << <<"a">>, <<"a", "1">> >>
    /\ "A" \in table_names
    /\ MetaTableInit(table_names, "A", <<>>).err = "AttributeError"
    /\ "B" \notin table_names
    /\ MetaTableInit(table_names, "B", <<[name |-> <<"p", "k">>, isField |-> FALSE]>>).err = Ok

-----------------------------------------------------------------------------
(* C11: filter() with one criterion column[__operator]=value fails with    *)
(* the unsupported-operator error whenever the operator is none of eq, ne, *)
(* gt, lt and the match-all marker, and with the unknown-field error       *)
(* whenever the column is neither a declared field nor id, whatever the    *)
(* operator; either error is raised before any scan or get reaches the     *)
(* Store.  Both errors are AttributeError in the code.                     *)

Supported == {"absent", "eq", "ne", "gt", "lt", "al"}
Declared(cls) == {schema[cls][k].name : k \in 1..Len(schema[cls])} \cup {"id"}

\* filter with a criterion that must be refused raised AttributeError with
\* no Store call
C11_Refused(crit, r) ==
    (crit.op \notin Supported \/ crit.col \notin Declared("Row"))
        => r.err = "AttributeError" /\ r.S.C = <<>>

C11_RefusedBeforeScan ==
    \A crit \in Criteria(inst) \ {NoArg} : \A desc \in BOOLEAN :
        C11_Refused(crit, MetaTableFilter(Start, "Row", crit, 0, desc))

\* C11 for the operators a caller can write, the match-all marker left out:
\* the unknown column of a match-all criterion raises KeyError instead
C11_RefusedBeforeScanUnlessMatchAll ==
    \A crit \in Criteria(inst) \ {NoArg} : \A desc \in BOOLEAN :
        crit.op # "al" =>
            C11_Refused(crit, MetaTableFilter(Start, "Row", crit, 0, desc))

-----------------------------------------------------------------------------
(* C12: filter() on a declared field of n slots, given any legal value of  *)
(* the field, issues exactly n scans, the i-th on the i-th slot name with  *)
(* the i-th primitive component of the value: 2 float probes for a         *)
(* Coordinate and 7 integer probes, year to microsecond, for every         *)
(* DateTime value whatever its microsecond; for a multi-slot field that is *)
(* not a timestamp the rows returned are those whose pk is in every probe  *)
(* result.                                                                 *)

Comparisons == {"absent", "eq", "ne", "gt", "lt"}
FieldOf(cls, n) ==
    schema[cls][CHOOSE k \in 1..Len(schema[cls]) : schema[cls][k].name = n].fld

\* the primitive components of a value, one per slot
Components(value) ==
    CASE value.t = "tuple" -> value.items
      [] value.t = "datetime" -> [k \in 1..7 |-> PyInt(value.c[k])]
      [] OTHER -> <<value>>

\* the scan of slot k of the field with component k of the value
Probe(crit, k) ==
    [op |-> "scan", table |-> "Row",
     how |-> IF crit.op = "absent" THEN "eq" ELSE crit.op,
     col |-> get_schema_repr_py(crit.col, FieldOf("Row", crit.col))[k],
     val |-> Components(crit.value)[k]]

\* the pks that every probe of the criterion returns
InEveryProbe(crit, desc) ==
    {p \in 1..MaxPk :
        \A k \in 1..Slots(FieldOf("Row", crit.col)) :
            LET Has(pks) == \E j \in 1..Len(pks) : pks[j] = p
            IN  Has(StoreScan(Start, "Row", Probe(crit, k).how, Probe(crit, k).col,
                              Probe(crit, k).val, 0, desc).pks)}

C12_Probes(crit, desc, r) ==
    /\ CallsOf(r.S.C, "scan") =
           [k \in 1..Slots(FieldOf("Row", crit.col)) |-> Probe(crit, k)]
    /\ (r.err = Ok /\ crit.value.t = "tuple") =>
           {r.objects[j].pk.v : j \in 1..Len(r.objects)} = InEveryProbe(crit, desc)

C12_OneScanPerSlot ==
    \A crit \in Criteria(inst) \ {NoArg} : \A desc \in BOOLEAN :
        (crit.col \in {"x", "c", "d"} /\ crit.op \in Comparisons) =>
            C12_Probes(crit, desc, MetaTableFilter(Start, "Row", crit, 0, desc))

\* C12 for the values whose text has neither a fraction nor an offset
WholeSeconds(value) == value.t = "datetime" => (value.c[7] = 0 /\ ~value.tz)

C12_OneScanPerSlotOfWholeSeconds ==
    \A crit \in Criteria(inst) \ {NoArg} : \A desc \in BOOLEAN :
        (/\ crit.col \in {"x", "c", "d"}
         /\ crit.op \in Comparisons
         /\ WholeSeconds(crit.value)) =>
            C12_Probes(crit, desc, MetaTableFilter(Start, "Row", crit, 0, desc))

-----------------------------------------------------------------------------
(* C13: filter() on a DateTime value returns the rows of the first probe,  *)
(* in slot order from year to microsecond, whose scan result is not empty: *)
(* the month probe's pks when the year probe is empty and the month probe  *)
(* is not, and so on down the slots; nothing only when every probe is      *)
(* empty.  Stated for the values that are probed slot by slot.             *)

\* what probe k of the criterion returns in the current state
ProbeResult(crit, k, desc) ==
    StoreScan(Start, "Row", Probe(crit, k).how, Probe(crit, k).col,
              Probe(crit, k).val, 0, desc).pks

RECURSIVE FirstNonEmpty(_, _, _)
FirstNonEmpty(crit, k, desc) ==
    IF k > 7 THEN <<>>
    ELSE IF ProbeResult(crit, k, desc) # <<>> THEN ProbeResult(crit, k, desc)
    ELSE FirstNonEmpty(crit, k + 1, desc)

PksOf(objects) == [j \in 1..Len(objects) |-> objects[j].pk.v]

\* the criteria on the timestamp that are probed slot by slot
Dated(crit) ==
    /\ crit # NoArg
    /\ crit.col = "d" /\ crit.op \in Comparisons
    /\ crit.value.t = "datetime" /\ WholeSeconds(crit.value)

C13_Returned(crit, desc, r) ==
    r.err = Ok => PksOf(r.objects) = FirstNonEmpty(crit, 1, desc)

C13_FirstNonEmptyProbe ==
    \A crit \in Criteria(inst) : \A desc \in BOOLEAN :
        Dated(crit) =>
            C13_Returned(crit, desc, MetaTableFilter(Start, "Row", crit, 0, desc))

\* what the code returns instead: the rows of the year probe, whatever the
\* later probes return
C13_YearOnly(crit, desc, r) ==
    r.err = Ok => PksOf(r.objects) = ProbeResult(crit, 1, desc)

C13_YearProbeOnly ==
    \A crit \in Criteria(inst) : \A desc \in BOOLEAN :
        Dated(crit) =>
            C13_YearOnly(crit, desc, MetaTableFilter(Start, "Row", crit, 0, desc))

\* a month probe with rows after an empty year probe, and nothing returned
C13_MonthIgnored ==
    \E crit \in Criteria(inst) :
        /\ Dated(crit)
        /\ ProbeResult(crit, 1, FALSE) = <<>>
        /\ ProbeResult(crit, 2, FALSE) # <<>>
        /\ MetaTableFilter(Start, "Row", crit, 0, FALSE).err = Ok
        /\ MetaTableFilter(Start, "Row", crit, 0, FALSE).objects = <<>>

-----------------------------------------------------------------------------
(* C14: filter(store) with no criteria issues exactly one scan, with the   *)
(* match-all operator and no column or value, then exactly one get per pk  *)
(* the scan returned, and returns one hydrated instance per pk in the      *)
(* order of the scan result, each with the scanned pk and the version the  *)
(* Store returned for it.                                                  *)

MatchAll == [op |-> "scan", table |-> "Row", how |-> "al", col |-> NoArg, val |-> NoArg]

\* what the match-all scan returns in the current state
Scanned(desc) == StoreScan(Start, "Row", "al", NoArg, NoArg, 0, desc).pks

\* the calls are the scan and then a get of each of the first n pks
ScanThenGets(C, pks, n) ==
    C = <<MatchAll>> \o [j \in 1..n |-> [op |-> "get", table |-> "Row",
                                           pk |-> PyInt(pks[j])]]

\* the object is the row pk as the Store holds it
HydratedFrom(o, pk) ==
    /\ o.pk = PyInt(pk)
    /\ o.version = PyInt(rows["Row"][pk].ver)

C14_All(pks, r) ==
    /\ r.err = Ok
    /\ ScanThenGets(r.S.C, pks, Len(pks))
    /\ Len(r.objects) = Len(pks)
    /\ \A j \in 1..Len(pks) : HydratedFrom(r.objects[j], pks[j])

C14_ScanThenGetPerPk ==
    \A desc \in BOOLEAN :
        C14_All(Scanned(desc), MetaTableFilter(Start, "Row", NoArg, 0, desc))

\* C14 as far as the rows hydrate: a get() that raises ends the loop, the
\* calls so far being the scan and the gets up to that row
C14_AsFar(pks, r) ==
    /\ r.err # Ok => \E n \in 1..Len(pks) : ScanThenGets(r.S.C, pks, n)
    /\ r.err = Ok => C14_All(pks, r)

C14_ScanThenGetPerPkWhenHydrated ==
    \A desc \in BOOLEAN :
        C14_AsFar(Scanned(desc), MetaTableFilter(Start, "Row", NoArg, 0, desc))

\* two rows returned in the Store's descending order, both hydrated
C14_TwoRows ==
    /\ Scanned(TRUE) = <<2, 1>>
    /\ C14_All(<<2, 1>>, MetaTableFilter(Start, "Row", NoArg, 0, TRUE))

-----------------------------------------------------------------------------
(* C15: the state of a Foreign field, unset, bound to a pk or bound to an  *)
(* object, is the field's own: on an instance with two Foreign fields,     *)
(* binding either field to a pk or to an object of the referenced table    *)
(* always succeeds, whatever the other field holds and whatever the field  *)
(* held before; afterwards a field bound to a pk reads through the         *)
(* referenced table's get and decomposes to that pk, a field bound to an   *)
(* object reads as that object with no Store call and decomposes to the    *)
(* object's pk; and the binding changes nothing in what the other field    *)
(* reads or decomposes to.                                                 *)

\* the instances with two Foreign fields
TwoRefs == {i \in Live(inst) : inst[i].cls = "Top"}

\* what a Foreign field may be bound to: a pk, or an object of its table
Bindings(fld) ==
    {PyInt(p) : p \in 1..MaxPk}
        \cup {PyObj(j) : j \in {l \in Live(inst) : inst[l].cls = fld.ref}}

\* a read of the field and its decomposition agree with what it is bound to
ReadsAsBound(o, f) ==
    LET bound == o.attrs[f.name].val
        Deref(r) ==
            /\ r.S.C = <<[op |-> "get", table |-> f.fld.ref, pk |-> bound]>>
            /\ get_decomposed_values(inst, o, f.name, f.fld) =
                   [err |-> Ok, vals |-> <<bound>>]
        Direct(r) ==
            /\ r.err = Ok /\ r.val = bound /\ r.S.C = <<>>
            /\ get_decomposed_values(inst, o, f.name, f.fld) =
                   [err |-> Ok, vals |-> <<inst[bound.id].pk>>]
    IN  CASE bound = None -> TRUE
          [] bound.t = "int" -> Deref(ForeignGet(Start, o, f.name, f.fld, 0))
          [] OTHER -> Direct(ForeignGet(Start, o, f.name, f.fld, 0))

\* field f reads and decomposes on o as it does on q
SameReading(o, q, f) ==
    /\ ForeignGet(Start, o, f.name, f.fld, 0) = ForeignGet(Start, q, f.name, f.fld, 0)
    /\ get_decomposed_values(inst, o, f.name, f.fld) =
           get_decomposed_values(inst, q, f.name, f.fld)

C15_Bound(o, k, s) ==
    /\ s.err = Ok
    /\ \A n \in 1..2 :
          /\ ReadsAsBound(s.obj, schema["Top"][n])
          /\ n # k => SameReading(s.obj, o, schema["Top"][n])

C15_FieldsIndependent ==
    \A i \in TwoRefs : \A k \in 1..2 : \A value \in Bindings(schema["Top"][k].fld) :
        C15_Bound(inst[i], k,
                  SetAttr(inst, inst[i], schema["Top"][k].name,
                          schema["Top"][k].fld, value))

\* C15 for the bindings of the kind the instance already holds: a flag of
\* the instance, not of the field, says whether its references are pks
OneKind(o, k, value) ==
    /\ value.t = "int" => o.lazy # "False"
    /\ \A n \in 1..2 :
          n # k => o.attrs[schema["Top"][n].name].val \in {None}
                   \/ o.attrs[schema["Top"][n].name].val.t = value.t

C15_OneKindPerInstance ==
    \A i \in TwoRefs : \A k \in 1..2 : \A value \in Bindings(schema["Top"][k].fld) :
        OneKind(inst[i], k, value) =>
            C15_Bound(inst[i], k,
                      SetAttr(inst, inst[i], schema["Top"][k].name,
                              schema["Top"][k].fld, value))

\* one field bound to a pk and the other to an object, on one instance
C15_Mixed ==
    \E i \in TwoRefs :
        /\ inst[i].attrs["mid"].val # None /\ inst[i].attrs["mid"].val.t = "int"
        /\ inst[i].attrs["leaf"].val # None /\ inst[i].attrs["leaf"].val.t = "obj"
        /\ ~ReadsAsBound(inst[i], schema["Top"][1])

=============================================================================
